---- MODULE Spec2Model ----
(***************************************************************************)
(* Model of the FSPT path tracer host code: the SAH BVH builder and its    *)
(* serializer (src/bvh.js), the scene compiler that packs the tree and the *)
(* geometry into flat buffers, the autofocus probe that walks the tree,    *)
(* and the progressive render loop with its input handlers (src/main.js).  *)
(*                                                                         *)
(* Conventions.                                                            *)
(*  - A JS array index a (0-based) is position a+1 of the TLA+ sequence.   *)
(*    Triangle indices, node ordinals and axes keep their 0-based values.  *)
(*  - Coordinates are integers.  The input triangles have even coordinates *)
(*    so that every centroid (min+max)*0.5 the code takes is an integer.   *)
(*  - A tree is a function from paths to nodes: <<>> is the root and       *)
(*    Append(p, 0) / Append(p, 1) are node p's .left / .right.             *)
(*  - resScale is kept in hundredths (25 for 0.25, 100 for 1.0).           *)
(*  - The eye, the focal depth and the lengths along the probe's ray are   *)
(*    kept in tenths of a unit (a key moves the eye by 0.1).               *)
(***************************************************************************)
EXTENDS Integers, Sequences, FiniteSets, TLC

VARIABLES
  phase,            \* position of the scene compiler (initBVH)
  geometry,         \* main.js `geometry`: the triangles pushed so far
  normalize,        \* scene.normalize as applied (0 = not set)
  bvh,              \* main.js `bvh` (new BVH(geometry, leafSize))
  bvhArray,         \* bvh.serializeTree()
  bvhBuffer,        \* packed node records, JS values (may hold undefined)
  trianglesBuffer,  \* 9 cells per triangle
  materialBuffer,   \* 12 cells per triangle
  normalBuffer,     \* 27 cells per triangle
  uvBuffer,         \* 6 cells per triangle
  masked,           \* maskBVHBuffer(bvhBuffer) as handed to the GPU
  lightBuffer,      \* 9 cells per emissive triangle
  res,              \* what padBuffer returned and padded, per texture
  pingpong,         \* sample counter
  dirty,            \* accumulator invalid
  moving,           \* camera is being moved
  active,           \* pointer inside the (framed) viewport
  resScale,         \* hundredths
  mode,             \* initEvents `mode`: left button drag in progress
  activeEvents,     \* initEvents `activeEvents`
  max,              \* parseInt(sampleInputElement.value)
  frameNumber,      \* frame index from the URL (-1 = interactive)
  isFramed,         \* !!window.frameElement
  acc,              \* the two accumulator targets framebuffers.screen[0..1]
  canvas,           \* default framebuffer
  scheduled,        \* a tick is pending (requestAnimationFrame / start)
  uploads,          \* number of uploadOutput() calls
  units,            \* GL texture units: the active one, and the target bound to unit 0
  lastTick,         \* what the last tick did (history)
  eye,              \* camera position, in tenths of a unit
  dir,              \* camera direction
  lensFeatures,     \* <<focal depth d in tenths, aperture>>; the code keeps 1 - 1/d
  probe             \* what the last shootAutoFocusRay() did (history)

compileVars == <<phase, geometry, normalize, bvh, bvhArray, bvhBuffer,
                 trianglesBuffer, materialBuffer, normalBuffer, uvBuffer, masked,
                 lightBuffer, res>>
renderVars == <<pingpong, dirty, moving, active, resScale, mode, activeEvents,
                max, frameNumber, isFramed, acc, canvas, scheduled, uploads, units,
               lastTick>>
cameraVars == <<eye, dir, lensFeatures, probe>>
vars == <<compileVars, renderVars, cameraVars>>

(***************************************************************************)
(* Bounds and input sets                                                   *)
(***************************************************************************)
MaxTris == 4          \* triangles per scene
MaxSamples == 3       \* largest sample budget
MaxProbed == 3        \* triangles per scene the autofocus probe is run on
MaxTravel == 1        \* steps of 0.1 the eye is followed away from where it starts

leafSize == 4         \* main.js 45
\* maxTris values handed to the BVH constructor: main.js hands leafSize; the
\* smaller ones make trees with internal nodes out of scenes of MaxTris triangles
LeafSizes == {1, 2, leafSize}
Emittances == {<<0, 0, 0>>, <<1, 1, 1>>}   \* prop.emittance of the scene's prop
NormalizeChoices == {0, 2}   \* scene.normalize (0 = absent)

\* Input triangles: vertex triples with even coordinates.  One of them is
\* degenerate (a single point), the others are right triangles of leg 2
\* parallel to the xy plane, anchored at different places.  On the scenes made
\* of these triangles the double-precision SAH costs of setSplit compare as
\* the exact costs do, so the integer arithmetic below selects the splits
\* the code selects.
Right(p) == <<p, <<p[1] + 2, p[2], p[3]>>, <<p[1], p[2] + 2, p[3]>> >>
Point(p) == <<p, p, p>>
TriangleCatalogue ==
  { Right(<<0, 0, 0>>), Right(<<2, 0, 0>>), Right(<<0, 2, 0>>), Right(<<2, 2, 2>>),
    Point(<<0, 0, 0>>) }

Infinity == 1000000000
maxT == 1000000          \* main.js 44

\* JS values that are not numbers of the model, as integer codes no
\* coordinate, ordinal or count takes
undefined == -Infinity - 1
NaN == -Infinity - 2

(***************************************************************************)
(* Vec3 and BoundingBox (src/bvh.js 93-143)                                *)
(***************************************************************************)
Min(a, b) == IF a < b THEN a ELSE b
Max(a, b) == IF a > b THEN a ELSE b

\* Math.min and Math.max: NaN when either argument is NaN
MathMin(a, b) == IF a = NaN \/ b = NaN THEN NaN ELSE Min(a, b)
MathMax(a, b) == IF a = NaN \/ b = NaN THEN NaN ELSE Max(a, b)

\* the product x * s of JS numbers, s finite or Infinity: 0 * Infinity is NaN
times(x, s) ==
  IF x = NaN \/ s = NaN THEN NaN
  ELSE IF s = Infinity THEN (IF x = 0 THEN NaN ELSE IF x > 0 THEN Infinity ELSE -Infinity)
  ELSE x * s

\* the sum a + b of JS numbers: Infinity + -Infinity is NaN
plus(a, b) ==
  IF -Infinity < a /\ a < Infinity /\ -Infinity < b /\ b < Infinity THEN a + b
  ELSE IF a = NaN \/ b = NaN THEN NaN
  ELSE IF a = Infinity THEN (IF b = -Infinity THEN NaN ELSE Infinity)
  ELSE IF a = -Infinity THEN (IF b = Infinity THEN NaN ELSE -Infinity)
  ELSE IF b = Infinity \/ b = -Infinity THEN b
  ELSE a + b

\* -a
negate(a) == IF a = NaN THEN NaN ELSE -a

\* the difference a - b of JS numbers: Infinity - Infinity is NaN
minus(a, b) ==
  IF -Infinity < a /\ a < Infinity /\ -Infinity < b /\ b < Infinity THEN a - b
  ELSE plus(a, negate(b))

\* x * 0.5
halve(x) == IF -Infinity < x /\ x < Infinity THEN x \div 2 ELSE x

\* a < b of JS numbers: false when either is NaN
lessThan(a, b) == a # NaN /\ b # NaN /\ a < b

\* a <= b of JS numbers: false when either is NaN
lessEq(a, b) == a # NaN /\ b # NaN /\ a <= b

Vec3min(a, b) == <<MathMin(a[1], b[1]), MathMin(a[2], b[2]), MathMin(a[3], b[3])>>
Vec3max(a, b) == <<MathMax(a[1], b[1]), MathMax(a[2], b[2]), MathMax(a[3], b[3])>>
Vec3sub(a, b) == <<minus(a[1], b[1]), minus(a[2], b[2]), minus(a[3], b[3])>>
Vec3scale(a, s) == <<times(a[1], s), times(a[2], s), times(a[3], s)>>
Vec3add(a, b) == <<plus(a[1], b[1]), plus(a[2], b[2]), plus(a[3], b[3])>>
Vec3dot(a, b) == a[1] * b[1] + a[2] * b[2] + a[3] * b[3]
Vec3cross(a, b) ==
  <<a[2] * b[3] - a[3] * b[2], a[3] * b[1] - a[1] * b[3], a[1] * b[2] - a[2] * b[1]>>

NewBoundingBox ==
  [min |-> <<Infinity, Infinity, Infinity>>, max |-> <<-Infinity, -Infinity, -Infinity>>]

addVertex(box, vert) ==
  [min |-> Vec3min(vert, box.min), max |-> Vec3max(vert, box.max)]

RECURSIVE addTriangleLoop(_, _, _)
addTriangleLoop(box, verts, i) ==
  IF i > Len(verts) THEN box ELSE addTriangleLoop(addVertex(box, verts[i]), verts, i + 1)

addTriangle(box, triangle) == addTriangleLoop(box, triangle.verts, 1)

addBoundingBox(box, other) ==
  [min |-> Vec3min(box.min, other.min), max |-> Vec3max(box.max, other.max)]

RECURSIVE addNodeLoop(_, _, _, _)
addNodeLoop(box, triangles, list, i) ==
  IF i > Len(list) THEN box
  ELSE addNodeLoop(addTriangle(box, triangles[list[i] + 1]), triangles, list, i + 1)

\* Fault: the node box is grown from the triangles' cached boxes instead of
\* their vertices
RECURSIVE addCachedLoop(_, _, _, _)
addCachedLoop(box, triangles, list, i) ==
  IF i > Len(list) THEN box
  ELSE addCachedLoop(addBoundingBox(box, triangles[list[i] + 1].boundingBox),
                     triangles, list, i + 1)

addNodeCached(box, triangles, indices) == addCachedLoop(box, triangles, indices[1], 1)

\* addNode walks node.indices[0], the x-axis list
addNode(box, triangles, indices) == addNodeLoop(box, triangles, indices[1], 1)

\* (min+max)*0.5; exact on the even coordinates it is taken of, and NaN on
\* the box no vertex was added to (Infinity + -Infinity)
centroidAt(box, k) == halve(plus(box.min[k], box.max[k]))
centroid(box) == <<centroidAt(box, 1), centroidAt(box, 2), centroidAt(box, 3)>>

\* A box that has a NaN coordinate has the area NaN; the box no vertex was
\* added to has the three lengths -Infinity and the area Infinity.
getSurfaceArea(box) ==
  LET xl == minus(box.max[1], box.min[1])
      yl == minus(box.max[2], box.min[2])
      zl == minus(box.max[3], box.min[3])
  IN IF \E c \in 1..3 : box.min[c] = NaN \/ box.max[c] = NaN THEN NaN
     ELSE IF \E c \in 1..3 : box.min[c] = Infinity \/ box.max[c] = -Infinity THEN Infinity
     ELSE (xl * yl + xl * zl + yl * zl) * 2

\* Triangle constructor: the AABB is computed once, from the vertices given
Triangle(verts) ==
  [verts |-> verts, boundingBox |-> addTriangle(NewBoundingBox, [verts |-> verts])]

(***************************************************************************)
(* BVH builder (src/bvh.js 5-91, 145-198)                                  *)
(***************************************************************************)
Range(seq) == {seq[k] : k \in 1..Len(seq)}

\* The comparator of _sortIndices; Array.prototype.sort is stable, and the
\* arrays it is given are 0..N-1 in ascending order, so ties keep index order
sortsBefore(triangles, axis, i1, i2) ==
  LET c1 == centroidAt(triangles[i1 + 1].boundingBox, axis + 1)
      c2 == centroidAt(triangles[i2 + 1].boundingBox, axis + 1)
  IN c1 < c2 \/ (c1 = c2 /\ i1 < i2)

\* Fault: the list is left in index order
sortIndicesSkipped(triangles, axis) ==
  SubSeq([r \in 1..Len(triangles) |-> r - 1], 1, Len(triangles))

sortIndices(triangles, axis) ==
  LET N == Len(triangles)
      rank(i) == Cardinality({j \in 0..(N - 1) : sortsBefore(triangles, axis, j, i)})
  IN SubSeq([r \in 1..N |-> CHOOSE i \in 0..(N - 1) : rank(i) = r - 1], 1, N)

\* First loop of setSplit for one axis (bvh.js 177-184), one direction:
\* `order` is the list in the order the sweep visits it, `box` the box grown
\* so far, and the result the surface area after each step.
RECURSIVE sweepSurfaces(_, _, _, _, _)
sweepStep(triangles, order, i, box, surfaces) ==
  sweepSurfaces(triangles, order, i + 1, box, Append(surfaces, getSurfaceArea(box)))

sweepSurfaces(triangles, order, i, box, surfaces) ==
  IF i > Len(order) THEN surfaces
  ELSE sweepStep(triangles, order, i,
                 addBoundingBox(box, triangles[order[i] + 1].boundingBox), surfaces)

Reverse(seq) == SubSeq([k \in 1..Len(seq) |-> seq[Len(seq) + 1 - k]], 1, Len(seq))

\* surfacesFront[i]: area of the box of idxCache[0..i]
surfacesFront(triangles, idxCache) ==
  sweepSurfaces(triangles, idxCache, 1, NewBoundingBox, <<>>)

\* surfacesBack[i]: area of the box of idxCache[N-1-i..N-1]
surfacesBack(triangles, idxCache) ==
  sweepSurfaces(triangles, Reverse(idxCache), 1, NewBoundingBox, <<>>)

\* The SAH cost of bvh.js line 189, 1 + sAf/P*(i+1) + sAb/P*(N-1-i).  For a
\* finite P > 0 and finite areas it is multiplied by P so that it stays an
\* integer.  Otherwise it is the value itself: with a NaN area NaN; with
\* P = Infinity the quotients of finite areas are 0 and the cost is 1, and
\* Infinity/Infinity is NaN; with P = 0 a quotient is 0/0 = NaN or
\* x/0 = Infinity; an infinite quotient makes the cost Infinity, and
\* Infinity * 0 is NaN.  The areas are those of boxes, never below 0.
splitCost(sAf, sAb, parentSurfaceArea, i, N) ==
  IF sAf = NaN \/ sAb = NaN \/ parentSurfaceArea = NaN THEN NaN
  ELSE IF parentSurfaceArea = Infinity
    THEN (IF sAf = Infinity \/ sAb = Infinity THEN NaN ELSE 1)
  ELSE IF parentSurfaceArea = 0
    THEN (IF sAf = 0 \/ sAb = 0 \/ N - 1 - i = 0 THEN NaN ELSE Infinity)
  ELSE IF sAf = Infinity \/ sAb = Infinity
    THEN (IF sAb = Infinity /\ N - 1 - i = 0 THEN NaN ELSE Infinity)
  ELSE parentSurfaceArea + sAf * (i + 1) + sAb * (N - 1 - i)

\* bvh.js 190-194: `cost < bestCost` is false for a cost of NaN or Infinity
keepBest(best, cost, i, axis) ==
  IF lessThan(cost, best.bestCost)
    THEN [bestCost |-> cost, splitIndex |-> i + 1, splitAxis |-> axis]
    ELSE best

\* Second loop of setSplit for one axis (bvh.js 186-195)
RECURSIVE costLoop(_, _, _, _, _, _)
costLoop(sFront, sBack, parentSurfaceArea, axis, i, best) ==
  IF i >= Len(sFront) THEN best
  ELSE costLoop(sFront, sBack, parentSurfaceArea, axis, i + 1,
         keepBest(best,
                  splitCost(sFront[i + 1], sBack[(Len(sBack) - 1 - i) + 1],
                            parentSurfaceArea, i, Len(sFront)),
                  i, axis))

\* The axis loop of setSplit (bvh.js 171-196)
RECURSIVE axisLoop(_, _, _, _, _)
axisLoop(triangles, indices, parentSurfaceArea, axis, best) ==
  IF axis >= 3 THEN best
  ELSE axisLoop(triangles, indices, parentSurfaceArea, axis + 1,
         costLoop(surfacesFront(triangles, indices[axis + 1]),
                  surfacesBack(triangles, indices[axis + 1]),
                  parentSurfaceArea, axis, 0, best))

\* setSplit: the (splitIndex, splitAxis) it leaves on the node; -1 is a
\* field left undefined
setSplit(triangles, indices, boundingBox) ==
  axisLoop(triangles, indices, getSurfaceArea(boundingBox), 0,
           [bestCost |-> Infinity, splitIndex |-> -1, splitAxis |-> -1])

\* Node constructor.  `built` is a history field: the index lists the node
\* was constructed with, which clearTempBuffers later drops from `indices`.
nodeWithBox(triangles, indices, boundingBox, split) ==
  [boundingBox |-> boundingBox, leaf |-> FALSE, indices |-> indices,
   splitIndex |-> split.splitIndex, splitAxis |-> split.splitAxis,
   built |-> indices, threw |-> FALSE]

nodeSplit(triangles, indices, boundingBox) ==
  nodeWithBox(triangles, indices, boundingBox, setSplit(triangles, indices, boundingBox))

Node(triangles, indices) ==
  nodeSplit(triangles, indices, addNode(NewBoundingBox, triangles, indices))

\* indices = null (triangles is the shared scene array, not copied here)
clearTempBuffers(node) == [node EXCEPT !.indices = <<>>]

getTriangles(node) == node.indices[1]

\* Fault: every axis is cut at position splitIndex, not only the split axis
constructCachedIndexListByPosition(indices, splitAxis, splitIndex) ==
  [left |-> [a \in 1..3 |-> SubSeq(indices[a], 1, splitIndex)],
   right |-> [a \in 1..3 |-> SubSeq(indices[a], splitIndex + 1, Len(indices[a]))]]

constructCachedIndexList(indices, splitAxis, splitIndex) ==
  LET list == indices[splitAxis + 1]
      leftSplit == SubSeq(list, 1, splitIndex)
      rightSplit == SubSeq(list, splitIndex + 1, Len(list))
      setLeft == Range(leftSplit)
      isLeft(idx) == idx \in setLeft
      isRight(idx) == idx \notin setLeft
  IN [left |-> [a \in 1..3 |-> IF a = splitAxis + 1 THEN leftSplit
                                ELSE SelectSeq(indices[a], isLeft)],
      right |-> [a \in 1..3 |-> IF a = splitAxis + 1 THEN rightSplit
                                 ELSE SelectSeq(indices[a], isRight)]]

\* buildTree, as the set of <<path, node>> pairs of the subtree it returns.
\* When the node is too big for a leaf and setSplit left splitAxis
\* undefined, indices[undefined].slice raises a TypeError: the node is
\* marked threw and the build has no result.
RECURSIVE buildTree(_, _, _, _)
RECURSIVE buildChildren(_, _, _, _)
RECURSIVE buildFrom(_, _, _, _)

\* Fault: the right child is built from the left lists
buildChildrenLeftTwice(triangles, maxTriangles, splitIndices, path) ==
  buildTree(triangles, maxTriangles, splitIndices.left, Append(path, 0))
    \cup buildTree(triangles, maxTriangles, splitIndices.left, Append(path, 1))

buildChildren(triangles, maxTriangles, splitIndices, path) ==
  buildTree(triangles, maxTriangles, splitIndices.left, Append(path, 0))
    \cup buildTree(triangles, maxTriangles, splitIndices.right, Append(path, 1))

\* Fault: the leaf test lets one triangle too many into a leaf
buildFromLate(triangles, maxTriangles, root, path) ==
  IF Len(root.indices[(IF root.splitAxis < 0 THEN 0 ELSE root.splitAxis) + 1]) <= maxTriangles + 1
    THEN {<<path, [root EXCEPT !.leaf = TRUE]>>}
  ELSE IF root.splitAxis < 0
    THEN {<<path, [root EXCEPT !.threw = TRUE]>>}
  ELSE {<<path, clearTempBuffers(root)>>}
         \cup buildChildren(triangles, maxTriangles,
                constructCachedIndexList(root.indices, root.splitAxis, root.splitIndex),
                path)

\* the body of buildTree after `let root = new Node(...)`
buildFrom(triangles, maxTriangles, root, path) ==
  IF Len(root.indices[(IF root.splitAxis < 0 THEN 0 ELSE root.splitAxis) + 1]) <= maxTriangles
    THEN {<<path, [root EXCEPT !.leaf = TRUE]>>}
  ELSE IF root.splitAxis < 0
    THEN {<<path, [root EXCEPT !.threw = TRUE]>>}
  ELSE {<<path, clearTempBuffers(root)>>}
         \cup buildChildren(triangles, maxTriangles,
                constructCachedIndexList(root.indices, root.splitAxis, root.splitIndex),
                path)

buildTree(triangles, maxTriangles, indices, path) ==
  buildFrom(triangles, maxTriangles, Node(triangles, indices), path)

MaxOf(S) == CHOOSE m \in S : \A n \in S : n <= m

\* the BVH object around the nodes buildTree returned; root = <<>> and
\* threw = TRUE when buildTree raised
bvhOf(maxTris, pairs, failed) ==
  [maxTriangles |-> maxTris,
   depth |-> IF failed THEN 0 ELSE MaxOf({Len(pr[1]) : pr \in pairs}),
   root |-> IF failed THEN <<>>
            ELSE [p \in {pr[1] : pr \in pairs} |-> (CHOOSE pr \in pairs : pr[1] = p)[2]],
   threw |-> failed]

bvhFrom(maxTris, pairs) == bvhOf(maxTris, pairs, \E pr \in pairs : pr[2].threw)

\* BVH constructor
BVH(triangles, maxTris) ==
  bvhFrom(maxTris,
          buildTree(triangles, maxTris,
                    <<sortIndices(triangles, 0), sortIndices(triangles, 1),
                      sortIndices(triangles, 2)>>,
                    <<>>))

\* serializeTree: st is the closure state (nodes, i); ret is the ordinal
\* traverseTree returns.  traverseRight and traverseDone are the rest of the
\* body after each recursive call has returned (l, r).
RECURSIVE traverseTree(_, _, _)

\* Fault: the two child ordinals are recorded in each other's field
traverseDoneSwapped(path, parent, l, r) ==
  [st |-> [nodes |-> [r.st.nodes EXCEPT ![parent + 1] =
                        [node |-> path, left |-> r.ret, right |-> l.ret]],
           i |-> r.st.i],
   ret |-> parent]

traverseDone(path, parent, l, r) ==
  [st |-> [nodes |-> [r.st.nodes EXCEPT ![parent + 1] =
                        [node |-> path, left |-> l.ret, right |-> r.ret]],
           i |-> r.st.i],
   ret |-> parent]

traverseRight(tree, path, parent, l) ==
  traverseDone(path, parent, l, traverseTree(tree, Append(path, 1), l.st))

traverseTree(tree, path, st) ==
  IF tree[path].leaf
    THEN [st |-> [nodes |-> Append(st.nodes, [node |-> path]), i |-> st.i + 1],
          ret |-> st.i + 1]
    ELSE traverseRight(tree, path, st.i + 1,
           traverseTree(tree, Append(path, 0),
                        [nodes |-> Append(st.nodes, [node |-> path]), i |-> st.i + 1]))

serializeTree(tree) == traverseTree(tree, <<>>, [nodes |-> <<>>, i |-> -1]).st.nodes

(***************************************************************************)
(* Scene compiler: initBVH (src/main.js 284-448)                           *)
(***************************************************************************)
\* ToInt32(ToNumber(c)) as new Int32Array(array) applies it to each cell
ToInt32(c) == IF c = undefined \/ c = NaN THEN 0 ELSE c

\* Scene bounds: initBVH adds every prop's bounds.min / bounds.max
RECURSIVE sceneBounds(_, _, _)
sceneBounds(box, triangles, i) ==
  IF i > Len(triangles) THEN box
  ELSE sceneBounds(addTriangle(box, triangles[i]), triangles, i + 1)

\* main.js 341-342
longestExtent(bounds) ==
  LET diff == Vec3sub(bounds.max, bounds.min)
  IN MathMax(MathMax(diff[1], diff[2]), diff[3])

\* main.js 344: 2 * scene.normalize / longest.  longest is 0 when every
\* vertex of the scene is the same point (the quotient is Infinity) and
\* -Infinity for the bounds of a scene without triangles (the quotient is
\* -0); on the scenes of the catalogue it is otherwise 2 or 4, and the
\* quotient an integer.
scaleFor(size, longest) ==
  IF longest = NaN THEN NaN
  ELSE IF longest = 0 THEN Infinity
  ELSE IF longest = -Infinity THEN 0
  ELSE (2 * size) \div longest

\* the loop of main.js 346-350: the vertices are replaced, the Triangle
\* objects (and the boundingBox each computed in its constructor) are kept
rescale(triangles, center, scale) ==
  SubSeq([i \in 1..Len(triangles) |->
            [triangles[i] EXCEPT !.verts =
               [j \in 1..Len(triangles[i].verts) |->
                  Vec3scale(Vec3sub(triangles[i].verts[j], center), scale)]]],
         1, Len(triangles))

\* main.js 340-351, given the scene bounds
normalizeWithin(triangles, size, bounds) ==
  rescale(triangles, centroid(bounds), scaleFor(size, longestExtent(bounds)))

normalizeScene(triangles, size) ==
  normalizeWithin(triangles, size, sceneBounds(NewBoundingBox, triangles, 1))

\* Per-triangle attributes supplied by the mesh loader and the texture
\* packer.  Their values are opaque to the compiler; each is modelled by a
\* tag naming the triangle that owns it.
tag(v) == v + 1
materialCells(v, emittance) ==
  <<tag(v), tag(v), tag(v), tag(v), 0, 0>> \o emittance \o <<tag(v), tag(v), 0>>
normalCells(v) == [c \in 1..27 |-> tag(v)]
uvCells(v) == [c \in 1..6 |-> tag(v)]
vertCells(triangle) == triangle.verts[1] \o triangle.verts[2] \o triangle.verts[3]

\* inner loop of main.js 376-390 over the triangles of one leaf
RECURSIVE emitLeaf(_, _, _, _, _)
emitLeaf(out, triangles, emittance, tris, j) ==
  IF j > Len(tris) THEN out
  ELSE emitLeaf([out EXCEPT
                   !.trianglesBuffer = @ \o vertCells(triangles[tris[j] + 1]),
                   !.materialBuffer = @ \o materialCells(tris[j], emittance),
                   !.normalBuffer = @ \o normalCells(tris[j]),
                   !.uvBuffer = @ \o uvCells(tris[j])],
                triangles, emittance, tris, j + 1)

\* the record of one node, main.js 372-373; a leaf entry has no left/right
bufferNode(e, node, triIndex) ==
  << IF "left" \in DOMAIN e THEN e.left ELSE undefined,
     IF "right" \in DOMAIN e THEN e.right ELSE undefined,
     triIndex >> \o node.boundingBox.min \o node.boundingBox.max

\* outer loop of main.js 369-395
RECURSIVE emitLoop(_, _, _, _, _, _)

\* one iteration for entry e: triIndex is read before the leaf's triangles
\* are pushed
emitNode(out, triangles, emittance, e, node, triIndex) ==
  [(IF node.leaf THEN emitLeaf(out, triangles, emittance, getTriangles(node), 1) ELSE out)
     EXCEPT !.bvhBuffer = @ \o bufferNode(e, node, triIndex)]

\* Fault: triIndex counts vertices (length / 3), not triangles
emitEntryVertices(out, triangles, emittance, e, node) ==
  emitNode(out, triangles, emittance, e, node,
           IF node.leaf THEN Len(out.trianglesBuffer) \div 3 ELSE -1)

emitEntry(out, triangles, emittance, e, node) ==
  emitNode(out, triangles, emittance, e, node,
           IF node.leaf THEN (Len(out.trianglesBuffer) \div 3) \div 3 ELSE -1)

emitLoop(out, tree, triangles, emittance, array, i) ==
  IF i > Len(array) THEN out
  ELSE emitLoop(emitEntry(out, triangles, emittance, array[i], tree[array[i].node]),
                tree, triangles, emittance, array, i + 1)

emitBuffers(tree, triangles, emittance, array) ==
  emitLoop([bvhBuffer |-> <<>>, trianglesBuffer |-> <<>>, materialBuffer |-> <<>>,
            normalBuffer |-> <<>>, uvBuffer |-> <<>>], tree, triangles, emittance, array, 1)

\* main.js 326-328: the triangles of a prop with emittance are one light;
\* the scene of the model is one prop, and each group of it pushes its
\* triangles (one group here)
sceneLights(triangles, emittance) ==
  IF Vec3dot(emittance, <<1, 1, 1>>) > 0 THEN <<triangles>> ELSE <<>>

\* main.js 397-404 (the lightRanges are not part of this state)
RECURSIVE emitLight(_, _, _)
emitLight(out, light, j) ==
  IF j > Len(light) THEN out
  ELSE emitLight(out \o vertCells(light[j]), light, j + 1)

RECURSIVE emitLightsFrom(_, _, _)
emitLightsFrom(out, lights, i) ==
  IF i > Len(lights) THEN out
  ELSE emitLightsFrom(emitLight(out, lights[i], 1), lights, i + 1)

emitLights(lights) == emitLightsFrom(<<>>, lights, 1)

\* padBuffer (main.js 143-154).
\* width = ceil(sqrt(n/channels)/perElement) * perElement is the least
\* multiple w of perElement with w*w*channels >= n.
padWidth(n, perElement, channels) ==
  perElement *
    (CHOOSE k \in 0..n : /\ (k * perElement) * (k * perElement) * channels >= n
                         /\ \A m \in 0..(k - 1) :
                              (m * perElement) * (m * perElement) * channels < n)

\* height = ceil(n/channels/width); 0/0 is NaN
padHeight(n, width, channels) ==
  IF width = 0 THEN NaN
  ELSE CHOOSE h \in 0..n : /\ h * width * channels >= n
                           /\ \A m \in 0..(h - 1) : m * width * channels < n

\* the loop `for (i = 0; i < numToPad; i++) buffer.push(-1)`; with a NaN
\* count the test is false at once
padTo(buffer, width, height, numToPad) ==
  [buffer |-> IF numToPad = NaN \/ numToPad <= 0 THEN buffer
              ELSE buffer \o [c \in 1..numToPad |-> -1],
   res |-> <<width, height>>,
   numToPad |-> numToPad]

padSized(buffer, channels, width, height) ==
  padTo(buffer, width, height,
        IF height = NaN THEN NaN ELSE channels * width * height - Len(buffer))

padWide(buffer, channels, width) ==
  padSized(buffer, channels, width, padHeight(Len(buffer), width, channels))

padBuffer(buffer, perElement, channels) ==
  padWide(buffer, channels, padWidth(Len(buffer), perElement, channels))

\* maskBVHBuffer (main.js 272-282).  The result is a Float32Array over the
\* bytes of an Int32Array: cells 0..2 of each record keep the bit pattern of
\* the int32 the cell was converted to (that integer is the model's value),
\* cells 3..8 are rewritten with the float.
maskBVHBuffer(buffer) ==
  [c \in 1..Len(buffer) |->
     IF (c - 1) % 9 >= 3 THEN buffer[c] ELSE ToInt32(buffer[c])]

(***************************************************************************)
(* Autofocus probe: shootAutoFocusRay (src/main.js 450-549)                *)
(*                                                                         *)
(* The eye and the lengths along the ray are in tenths of a unit; the      *)
(* triangles and the boxes are scaled by 10 where the probe reads them.    *)
(* The camera direction is an axis unit vector with components in          *)
(* {-1, 0, 1} and the triangles are those of the catalogue, so that det is *)
(* 0 or +-400 (in tenths squared) and every quotient the probe takes is an *)
(* exact integer.  The code's epsilon is 1e-12: on these integers          *)
(* |det| < epsilon is det = 0 and t > epsilon is t > 0.                    *)
(***************************************************************************)
tenths(v) == Vec3scale(v, 10)

\* maxT as a length in tenths
missT == 10 * maxT

\* the tail of rayTriangleIntersect (main.js 462-475) once det # 0:
\* u = uDet / det, v = vDet / det, t = tDet / det
hitDistance(det, uDet, vDet, tDet) ==
  IF uDet * det < 0 \/ (IF det > 0 THEN uDet > det ELSE uDet < det) THEN missT
  ELSE IF vDet * det < 0 \/ (IF det > 0 THEN uDet + vDet > det ELSE uDet + vDet < det)
         THEN missT
  ELSE IF tDet * det > 0 THEN tDet \div det
  ELSE missT

\* main.js 461-471: t, q and the three numerators
intersectWith(origin, direction, v0, e1, e2, p, det) ==
  LET t == Vec3sub(origin, v0)
      q == Vec3cross(t, e1)
  IN hitDistance(det, Vec3dot(t, p), Vec3dot(direction, q), Vec3dot(e2, q))

\* main.js 455-459
intersectEdges(origin, direction, v0, e1, e2) ==
  LET p == Vec3cross(direction, e2)
      det == Vec3dot(e1, p)
  IN IF det = 0 THEN missT
     ELSE intersectWith(origin, direction, v0, e1, e2, p, det)

\* rayTriangleIntersect(tri) for the ray (origin, direction): main.js 451-476
rayTriangleIntersect(tri, origin, direction) ==
  LET v0 == tenths(tri.verts[1])
  IN intersectEdges(origin, direction, v0,
                    Vec3sub(tenths(tri.verts[2]), v0), Vec3sub(tenths(tri.verts[3]), v0))

\* processLeaf with its result starting at 0 instead of maxT
RECURSIVE processLeafLoop(_, _, _, _, _, _)
processLeafFromZero(triangles, node, origin, direction) ==
  processLeafLoop(triangles, getTriangles(node), origin, direction, 1, 0)

\* main.js 478-488
processLeafLoop(triangles, tris, origin, direction, i, nearest) ==
  IF i > Len(tris) THEN nearest
  ELSE LET tmp == rayTriangleIntersect(triangles[tris[i] + 1], origin, direction)
       IN processLeafLoop(triangles, tris, origin, direction, i + 1,
                          IF tmp < nearest THEN tmp ELSE nearest)

processLeaf(triangles, node, origin, direction) ==
  processLeafLoop(triangles, getTriangles(node), origin, direction, 1, missT)

\* (c - eye[k]) * invDir[k] with invDir[k] = 1 / d: a JS number, which is
\* +-Infinity when d = 0 and c # eye[k], and NaN (0 * Infinity) when d = 0 and
\* c = eye[k]
slab(c, e, d) ==
  IF d # 0 THEN (c - e) * d
  ELSE IF c = e THEN NaN
  ELSE IF c > e THEN Infinity
  ELSE -Infinity

\* main.js 506: a comparison with NaN is false
boxEntry(tmin, tmax) ==
  IF tmin # NaN /\ tmax # NaN /\ tmax >= tmin /\ tmax >= 0 THEN tmin ELSE missT

\* rayBoxIntersect(bbox): main.js 490-507
rayBoxIntersect(bbox, origin, direction) ==
  LET lo == tenths(bbox.min)
      hi == tenths(bbox.max)
      tx1 == slab(lo[1], origin[1], direction[1])
      tx2 == slab(hi[1], origin[1], direction[1])
      ty1 == slab(lo[2], origin[2], direction[2])
      ty2 == slab(hi[2], origin[2], direction[2])
      tz1 == slab(lo[3], origin[3], direction[3])
      tz2 == slab(hi[3], origin[3], direction[3])
  IN boxEntry(MathMax(MathMax(MathMin(tx1, tx2), MathMin(ty1, ty2)), MathMin(tz1, tz2)),
              MathMin(MathMin(MathMax(tx1, tx2), MathMax(ty1, ty2)), MathMax(tz1, tz2)))

\* closestNode(nLeft, nRight): main.js 509-530; a node is its path, and
\* node |-> FALSE stands for null
closestOrder(left, tLeft, right, tRight) ==
  LET l == [node |-> tLeft < missT, path |-> left, t |-> tLeft]
      r == [node |-> tRight < missT, path |-> right, t |-> tRight]
  IN IF tLeft < tRight THEN <<l, r>> ELSE <<r, l>>

closestNode(tree, left, right, origin, direction) ==
  closestOrder(left, rayBoxIntersect(tree[left].boundingBox, origin, direction),
               right, rayBoxIntersect(tree[right].boundingBox, origin, direction))

\* findTriangles(root, closest): main.js 532-544
RECURSIVE findTriangles(_, _, _, _, _, _)
RECURSIVE findLoop(_, _, _, _, _, _, _)
findLoop(tree, triangles, ord, closest, origin, direction, i) ==
  IF i > Len(ord) THEN closest
  ELSE IF ord[i].node /\ ord[i].t < closest
         THEN findLoop(tree, triangles, ord,
                       Min(findTriangles(tree, triangles, ord[i].path, closest,
                                         origin, direction), closest),
                       origin, direction, i + 1)
  ELSE findLoop(tree, triangles, ord, closest, origin, direction, i + 1)

findTriangles(tree, triangles, path, closest, origin, direction) ==
  IF tree[path].leaf THEN processLeaf(triangles, tree[path], origin, direction)
  ELSE findLoop(tree, triangles,
                closestNode(tree, Append(path, 0), Append(path, 1), origin, direction),
                closest, origin, direction, 1)

\* shootAutoFocusRay(): main.js 546-548.  dist.toFixed(3) is defined for
\* every number, so that the probe completes whatever dist is.
shootAutoFocusRay(built, triangles, origin, direction, lens) ==
  LET dist == findTriangles(built.root, triangles, <<>>, missT, origin, direction)
  IN [lensFeatures |-> <<dist, lens[2]>>, dist |-> dist, done |-> TRUE]

(***************************************************************************)
(* Initial state                                                           *)
(***************************************************************************)
\* the textures initBVH packs a buffer for, with the channels per pixel of
\* each, and the record kept of a padBuffer call: the [width, height] it
\* returned and the numToPad it computed
Textures == {"bvh", "materials", "triangles", "normals", "lights", "uvs"}
channelsOf(name) == IF name = "uvs" THEN 2 ELSE 3
NoPad == [res |-> <<0, 0>>, numToPad |-> 0, done |-> FALSE]
padResult(padded) == [res |-> padded.res, numToPad |-> padded.numToPad, done |-> TRUE]

NoBVH == [maxTriangles |-> 0, depth |-> 0, root |-> <<>>, threw |-> FALSE]
CompileInit ==
  /\ phase = "load"
  /\ geometry = <<>>
  /\ normalize = 0
  /\ bvh = NoBVH
  /\ bvhArray = <<>>
  /\ bvhBuffer = <<>>
  /\ trianglesBuffer = <<>>
  /\ materialBuffer = <<>>
  /\ normalBuffer = <<>>
  /\ uvBuffer = <<>>
  /\ masked = <<>>
  /\ lightBuffer = <<>>
  /\ res = [name \in Textures |-> NoPad]

\* initGlobals (main.js 69-74): the camera of a scene that sets neither
\* cameraPos nor cameraDir, and the lens the page's inputs start with
NoProbe == [done |-> FALSE, dist |-> 0]
CameraIdle ==
  /\ eye = <<0, 0, 20>>
  /\ dir = <<0, 0, -1>>
  /\ lensFeatures = <<20, 0>>
  /\ probe = NoProbe

\* scene.cameraPos (in tenths) and scene.cameraDir
Eyes == {<<x, y, 10>> : x \in {0, 5, 25}, y \in {5, 25}}
Dirs == {<<0, 0, -1>>, <<0, 0, 1>>, <<1, 0, 0>>}
CameraInit ==
  /\ eye \in Eyes
  /\ dir \in Dirs
  /\ lensFeatures = <<20, 0>>
  /\ probe = NoProbe

\* initBVH (main.js 284-448) run to its end on a scene with no emissive
\* triangle and no scene.normalize
Scenes == UNION {[1..n -> TriangleCatalogue] : n \in 1..MaxProbed}
\* a scene of more triangles than main.js puts in a leaf
DeepScene ==
  <<Right(<<0, 0, 0>>), Right(<<2, 2, 2>>), Right(<<2, 2, 2>>), Right(<<2, 2, 2>>),
    Right(<<2, 2, 2>>)>>
sceneGeometry(scene) == SubSeq([i \in 1..Len(scene) |-> Triangle(scene[i])], 1, Len(scene))
CompiledFrom(triangles, built, array) ==
  \E out \in {emitBuffers(built.root, triangles, <<0, 0, 0>>, array)} :
  \E b \in {padBuffer(out.bvhBuffer, 3, 3)} :
  \E m \in {padBuffer(out.materialBuffer, 4, 3)} :
  \E t \in {padBuffer(out.trianglesBuffer, 3, 3)} :
  \E n \in {padBuffer(out.normalBuffer, 9, 3)} :
  \E l \in {padBuffer(emitLights(sceneLights(triangles, <<0, 0, 0>>)), 3, 3)} :
  \E u \in {padBuffer(out.uvBuffer, 3, 2)} :
     /\ geometry = triangles
     /\ normalize = 0
     /\ bvh = built
     /\ bvhArray = array
     /\ bvhBuffer = b.buffer
     /\ masked = maskBVHBuffer(b.buffer)
     /\ materialBuffer = m.buffer
     /\ trianglesBuffer = t.buffer
     /\ normalBuffer = n.buffer
     /\ lightBuffer = l.buffer
     /\ uvBuffer = u.buffer
     /\ res = [name \in Textures |->
                 padResult(CASE name = "bvh" -> b [] name = "materials" -> m
                             [] name = "triangles" -> t [] name = "normals" -> n
                             [] name = "lights" -> l [] name = "uvs" -> u)]
     /\ phase = "padded"

Compiled(scene, maxTris) ==
  \E triangles \in {sceneGeometry(scene)} :
  \E built \in {BVH(triangles, maxTris)} :
     /\ ~built.threw
     /\ \E array \in {serializeTree(built.root)} : CompiledFrom(triangles, built, array)

CompiledInit ==
  \E scene \in Scenes \cup {DeepScene} : \E maxTris \in LeafSizes : Compiled(scene, maxTris)

(***************************************************************************)
(* Scene compiler steps                                                    *)
(***************************************************************************)
\* the triangles the loader may push next: any of the catalogue up to MaxTris
\* triangles, and beyond that the rest of DeepScene, the scene main.js's
\* leafSize splits
loadable(triangles) ==
  IF Len(triangles) < MaxTris THEN TriangleCatalogue
  ELSE IF /\ Len(triangles) < Len(DeepScene)
          /\ triangles = sceneGeometry(SubSeq(DeepScene, 1, Len(triangles)))
       THEN {DeepScene[Len(triangles) + 1]}
       ELSE {}

\* main.js 325-334: geometry.push(t) for a triangle the loader constructed
LoadTriangle ==
  /\ phase = "load"
  /\ \E verts \in loadable(geometry) : geometry' = Append(geometry, Triangle(verts))
  /\ UNCHANGED <<phase, normalize, bvh, bvhArray, bvhBuffer, trianglesBuffer,
                 materialBuffer, normalBuffer, uvBuffer, masked, lightBuffer, res>>
  /\ UNCHANGED renderVars
  /\ UNCHANGED cameraVars

\* main.js 340-351
NormalizeScene ==
  /\ phase = "load"
  /\ \E size \in NormalizeChoices :
       /\ normalize' = size
       /\ geometry' = IF size # 0 THEN normalizeScene(geometry, size) ELSE geometry
  /\ phase' = "normalized"
  /\ UNCHANGED <<bvh, bvhArray, bvhBuffer, trianglesBuffer,
                 materialBuffer, normalBuffer, uvBuffer, masked, lightBuffer, res>>
  /\ UNCHANGED renderVars
  /\ UNCHANGED cameraVars

\* main.js 358: bvh = new BVH(geometry, leafSize)
BuildBVH ==
  /\ phase = "normalized"
  /\ \E maxTris \in LeafSizes :
       \E built \in {BVH(geometry, maxTris)} :
          /\ bvh' = built
          /\ phase' = IF built.threw THEN "threw" ELSE "built"
  /\ UNCHANGED <<geometry, normalize, bvhArray, bvhBuffer, trianglesBuffer,
                 materialBuffer, normalBuffer, uvBuffer, masked, lightBuffer, res>>
  /\ UNCHANGED renderVars
  /\ UNCHANGED cameraVars

\* main.js 361
SerializeTree ==
  /\ phase = "built"
  /\ bvhArray' = serializeTree(bvh.root)
  /\ phase' = "serialized"
  /\ UNCHANGED <<geometry, normalize, bvh, bvhBuffer, trianglesBuffer,
                 materialBuffer, normalBuffer, uvBuffer, masked, lightBuffer, res>>
  /\ UNCHANGED renderVars
  /\ UNCHANGED cameraVars

\* main.js 363-403
EmitBuffers ==
  /\ phase = "serialized"
  /\ \E emittance \in Emittances :
     \E out \in {emitBuffers(bvh.root, geometry, emittance, bvhArray)} :
        /\ bvhBuffer' = out.bvhBuffer
        /\ trianglesBuffer' = out.trianglesBuffer
        /\ materialBuffer' = out.materialBuffer
        /\ normalBuffer' = out.normalBuffer
        /\ uvBuffer' = out.uvBuffer
        /\ lightBuffer' = emitLights(sceneLights(geometry, emittance))
  /\ phase' = "emitted"
  /\ UNCHANGED <<geometry, normalize, bvh, bvhArray, masked, res>>
  /\ UNCHANGED renderVars
  /\ UNCHANGED cameraVars

\* main.js 412-413: padBuffer(bvhBuffer, 3, 3) then maskBVHBuffer(bvhBuffer)
MaskBVH ==
  /\ phase = "emitted"
  /\ \E padded \in {padBuffer(bvhBuffer, 3, 3)} :
        /\ bvhBuffer' = padded.buffer
        /\ masked' = maskBVHBuffer(padded.buffer)
        /\ res' = [res EXCEPT !.bvh = padResult(padded)]
  /\ phase' = "masked"
  /\ UNCHANGED <<geometry, normalize, bvh, bvhArray, trianglesBuffer,
                 materialBuffer, normalBuffer, uvBuffer, lightBuffer>>
  /\ UNCHANGED renderVars
  /\ UNCHANGED cameraVars

\* main.js 417-441: the other five buffers are padded and uploaded
PadBuffers ==
  /\ phase = "masked"
  /\ \E m \in {padBuffer(materialBuffer, 4, 3)} :
     \E t \in {padBuffer(trianglesBuffer, 3, 3)} :
     \E n \in {padBuffer(normalBuffer, 9, 3)} :
     \E l \in {padBuffer(lightBuffer, 3, 3)} :
     \E u \in {padBuffer(uvBuffer, 3, 2)} :
        /\ materialBuffer' = m.buffer
        /\ trianglesBuffer' = t.buffer
        /\ normalBuffer' = n.buffer
        /\ lightBuffer' = l.buffer
        /\ uvBuffer' = u.buffer
        /\ res' = [res EXCEPT !.materials = padResult(m), !.triangles = padResult(t),
                              !.normals = padResult(n), !.lights = padResult(l),
                              !.uvs = padResult(u)]
  /\ phase' = "padded"
  /\ UNCHANGED <<geometry, normalize, bvh, bvhArray, bvhBuffer, masked>>
  /\ UNCHANGED renderVars
  /\ UNCHANGED cameraVars

(***************************************************************************)
(* Render loop and input handlers (src/main.js 622-742, 829-860, 899-904)  *)
(*                                                                         *)
(* An accumulator target holds "zero" (created with null data, or cleared),*)
(* or the output of a tracer pass at quarter ("quarter") or full ("full")  *)
(* resolution.  Of the camera, eye, dir and lensFeatures are part of the   *)
(* state; fovScale and envTheta, which only their own handlers write, are  *)
(* not.                                                                    *)
(***************************************************************************)
FrameChoices == {-1, 0}
\* parseInt(elements.sampleInputElement.value), main.js 842: a count up to
\* MaxSamples, 0 for the text "0", NaN for a text that starts with no digit
SampleChoices == (0..MaxSamples) \cup {NaN}
keySet == {"w", "a", "s", "d", "r", "f"}
KeyInputs == {"w", "x"}            \* keys pressed in the model; "x" is not in keySet
ButtonInputs == {1, 3}             \* e.which
FocalInputs == {50}                \* focal-depth input values, in tenths
ApertureInputs == {0}              \* aperture input values

\* The scene the loop renders and its camera (scene.cameraPos in tenths,
\* scene.cameraDir), and the lens the page's inputs start with.
RenderScene == <<Right(<<0, 0, 0>>)>>
RenderEye == <<5, 5, 20>>
RenderDir == <<0, 0, -1>>
CameraStart ==
  /\ eye = RenderEye
  /\ dir = RenderDir
  /\ lensFeatures = <<10, 0>>
  /\ probe = NoProbe

\* The directions a mousemove of a drag leaves the camera in.  The handler
\* rotates dir by (rx, ry) = ((xi - layerX) / 180, (yi - layerY) / 180)
\* radians; the model follows the events that leave it along -z, the
\* mousemove events with no displacement (rx = ry = 0).
Turns == {<<0, 0, -1>>}

\* keypress, main.js 702-723: the shift a key adds to the eye, in tenths.
\* dir is a unit vector along an axis of the xz plane, so that strafe and
\* cross(dir, strafe) are unit vectors and Vec3.normalize leaves them alone.
translation(key, direction) ==
  LET strafe == Vec3cross(direction, <<0, 1, 0>>)
  IN CASE key = "w" -> direction
       [] key = "a" -> Vec3scale(strafe, -1)
       [] key = "s" -> Vec3scale(direction, -1)
       [] key = "d" -> strafe
       [] key = "r" -> Vec3scale(Vec3cross(direction, strafe), -1)
       [] key = "f" -> Vec3cross(direction, strafe)
       [] OTHER -> <<0, 0, 0>>

\* steps of 0.1 between the eye and where it started
Abs(x) == IF x < 0 THEN -x ELSE x
travelled(e) ==
  Abs(e[1] - RenderEye[1]) + Abs(e[2] - RenderEye[2]) + Abs(e[3] - RenderEye[3])

\* History of the loop.  Of the last tick: whether it ran (ran), with no
\* handler since (fresh), traced, cleared, uploaded; the ordinal its tracer
\* pass was issued with (ord), the targets that pass read and wrote, the
\* target its drawQuad sampled (presented), the target the pass before it
\* wrote if no clear() came between (prev).  Of the run: the target the latest
\* pass wrote if no clear() came since (last), whether no handler has run
\* since start-up (quiet) and the drawTracer calls made while so (passes),
\* whether the camera was rotated since the last tick (rotated), whether the
\* last tick was the first after a rotation (afterRotation), and the passes
\* made since that tick with no handler running (freshPasses, -1 if none).
NoTick == [fresh |-> FALSE, ran |-> FALSE, traced |-> FALSE, cleared |-> FALSE,
           clearMoving |-> FALSE, clearPingpong |-> 0, uploaded |-> FALSE,
           ord |-> -1, read |-> -1, wrote |-> -1, presented |-> -1, prev |-> -1,
           last |-> -1, quiet |-> TRUE, passes |-> 0, rotated |-> FALSE,
           afterRotation |-> FALSE, freshPasses |-> -1]

\* no gl.activeTexture call precedes the first drawTracer: unit 0 is active,
\* and what is bound to it is not an accumulator target
NoUnits == [activeTexture |-> 0, texture0 |-> -1]

RenderInit ==
  /\ pingpong = 0
  /\ dirty = TRUE
  /\ moving = FALSE
  /\ resScale = 100
  /\ isFramed \in BOOLEAN
  /\ active = ~isFramed
  /\ mode = FALSE
  /\ activeEvents = {}
  /\ max \in SampleChoices
  /\ frameNumber \in FrameChoices
  /\ acc = [k \in 0..1 |-> "zero"]
  /\ canvas = "blank"
  /\ scheduled = TRUE
  /\ uploads = 0
  /\ units = NoUnits
  /\ lastTick = NoTick

RenderIdle ==
  /\ pingpong = 0
  /\ dirty = TRUE
  /\ moving = FALSE
  /\ resScale = 100
  /\ isFramed = FALSE
  /\ active = TRUE
  /\ mode = FALSE
  /\ activeEvents = {}
  /\ max = 1
  /\ frameNumber = -1
  /\ acc = [k \in 0..1 |-> "zero"]
  /\ canvas = "blank"
  /\ scheduled = FALSE
  /\ uploads = 0
  /\ units = NoUnits
  /\ lastTick = NoTick

\* the test of tick() without its last conjunct
shouldTraceInactive(m, pp, isActive) == m # NaN /\ m # 0 /\ lessEq(pp, m)

\* tick(), main.js 844: max && pingpong <= max && active; 0 and NaN are falsy
shouldTrace(m, pp, isActive) == m # NaN /\ m # 0 /\ lessEq(pp, m) /\ isActive

\* drawTracer(i) binding textures.screen[i % 2] as its input
tracerSourceSame(i) == i % 2

\* drawTracer(i), main.js 786-787: the accumulator texture it samples
tracerSource(i) == (i + 1) % 2

\* drawTracer(i), main.js 808: the framebuffer it draws into
tracerTarget(i) == i % 2

\* drawTracer(i): draws into framebuffers.screen[i % 2] at the current resScale
drawTracer(targets, i, scale) ==
  [targets EXCEPT ![tracerTarget(i)] = IF scale = 100 THEN "full" ELSE "quarter"]

\* drawTracer(i), main.js 786-807: unit 0 gets the source texture, and
\* TEXTURE10 is the active unit when it returns
bindTracer(i) == [activeTexture |-> 10, texture0 |-> tracerSource(i)]

\* drawQuad(i), main.js 823-825: the shader samples unit 0 (fbTex = 0), and
\* bindTexture(TEXTURE_2D, textures.screen[i % 2]) binds to the active unit
drawQuad(bound, i) ==
  IF bound.activeTexture = 0 THEN [bound EXCEPT !.texture0 = i % 2] ELSE bound

\* the upload test with > for >=
shouldUploadAbove(pp, m, frame) == lessThan(m, pp) /\ frame >= 0

\* tick(), main.js 854: pingpong >= max && frameNumber >= 0
shouldUpload(pp, m, frame) == lessEq(m, pp) /\ frame >= 0

\* a tick that requests the next frame whether it uploaded or not
requestsFrameAlways(upload) == TRUE

\* tick(), main.js 854-859: requestAnimationFrame(tick) unless it uploaded
requestsFrame(upload) == ~upload

\* the framebuffers clear() binds and clears when it is called with this
\* pingpong: screen[0] and screen[pingpong + 1 % 2], which JS parses as
\* screen[pingpong + (1 % 2)].  An index outside 0..1 reads undefined, and
\* bindFramebuffer(FRAMEBUFFER, undefined) binds the default framebuffer.
clearIndices(pp) == {0, pp + (1 % 2)}

\* clear() leaving pingpong as it is
clearKeepingCount(targets, screen, pp, isMoving) ==
  [acc |-> IF isMoving THEN targets
           ELSE [k \in 0..1 |-> IF k \in clearIndices(pp) THEN "zero" ELSE targets[k]],
   canvas |-> IF ~isMoving /\ \E k \in clearIndices(pp) : k \notin 0..1
              THEN "cleared" ELSE screen,
   pingpong |-> pp,
   dirty |-> FALSE]

\* clear(): [acc, canvas, pingpong, dirty] after the call
clear(targets, screen, pp, isMoving) ==
  [acc |-> IF isMoving THEN targets
           ELSE [k \in 0..1 |-> IF k \in clearIndices(pp) THEN "zero" ELSE targets[k]],
   canvas |-> IF ~isMoving /\ \E k \in clearIndices(pp) : k \notin 0..1
              THEN "cleared" ELSE screen,
   pingpong |-> 0,
   dirty |-> FALSE]

\* the history a tick leaves
tickHistory(before, trace, pp, isDirty, isMoving, upload, bound) ==
  [fresh |-> TRUE, ran |-> TRUE, traced |-> trace, cleared |-> isDirty,
   clearMoving |-> isDirty /\ isMoving,
   clearPingpong |-> IF isDirty THEN (IF trace THEN pp + 1 ELSE pp) ELSE 0,
   uploaded |-> upload,
   ord |-> IF trace THEN pp ELSE -1,
   read |-> IF trace THEN tracerSource(pp) ELSE -1,
   wrote |-> IF trace THEN tracerTarget(pp) ELSE -1,
   presented |-> bound.texture0,
   prev |-> IF trace THEN before.last ELSE -1,
   last |-> IF isDirty THEN -1 ELSE IF trace THEN tracerTarget(pp) ELSE before.last,
   quiet |-> before.quiet,
   passes |-> IF before.quiet /\ trace THEN before.passes + 1 ELSE before.passes,
   rotated |-> FALSE,
   afterRotation |-> before.rotated,
   freshPasses |-> IF before.rotated THEN 0
                   ELSE IF before.fresh /\ before.freshPasses >= 0 /\ ~isDirty
                     THEN (IF trace THEN before.freshPasses + 1 ELSE before.freshPasses)
                   ELSE -1]

\* tick()
Tick ==
  /\ scheduled
  /\ probe.done
  /\ LET scale == IF moving THEN 25 ELSE 100
         trace == shouldTrace(max, pingpong, active)
         accTraced == IF trace THEN drawTracer(acc, pingpong, scale) ELSE acc
         ppTraced == IF trace THEN pingpong + 1 ELSE pingpong
         bound == drawQuad(IF trace THEN bindTracer(pingpong) ELSE units, ppTraced)
         cleared == IF dirty THEN clear(accTraced, "presented", ppTraced, moving)
                    ELSE [acc |-> accTraced, canvas |-> "presented",
                          pingpong |-> ppTraced, dirty |-> dirty]
         upload == shouldUpload(cleared.pingpong, max, frameNumber)
     IN /\ resScale' = scale
        /\ acc' = cleared.acc
        /\ canvas' = cleared.canvas
        /\ pingpong' = cleared.pingpong
        /\ dirty' = cleared.dirty
        /\ units' = bound
        /\ uploads' = IF upload THEN uploads + 1 ELSE uploads
        /\ scheduled' = requestsFrame(upload)
        /\ lastTick' = tickHistory(lastTick, trace, pingpong, dirty, moving, upload, bound)
  /\ UNCHANGED <<moving, active, mode, activeEvents, max, frameNumber, isFramed>>
  /\ UNCHANGED compileVars
  /\ UNCHANGED cameraVars

\* The canvas, input and key handlers are installed by initEvents(), and the
\* first tick runs synchronously after it at the end of start(): none of
\* them runs before that tick.  The window's mouseover / mouseout handlers
\* are installed before start() awaits initBVH and can run before it.
Stale == [lastTick EXCEPT !.fresh = FALSE, !.quiet = FALSE, !.passes = 0]

MouseDown ==
  /\ lastTick.ran
  /\ \E which \in ButtonInputs : mode' = (which = 1)
  /\ lastTick' = Stale
  /\ UNCHANGED <<pingpong, dirty, moving, active, resScale, activeEvents, max,
                 frameNumber, isFramed, acc, canvas, scheduled, uploads, units>>
  /\ UNCHANGED compileVars
  /\ UNCHANGED cameraVars

MouseMove ==
  /\ lastTick.ran
  /\ IF mode
       THEN /\ moving' = TRUE
            /\ dirty' = TRUE
            /\ activeEvents' = activeEvents \cup {"mouse"}
            /\ \E turned \in Turns : dir' = turned
            /\ lastTick' = [Stale EXCEPT !.rotated = TRUE]
       ELSE /\ UNCHANGED <<moving, dirty, activeEvents, dir>>
            /\ lastTick' = Stale
  /\ UNCHANGED <<pingpong, active, resScale, mode, max, frameNumber, isFramed,
                 acc, canvas, scheduled, uploads, units>>
  /\ UNCHANGED <<eye, lensFeatures, probe>>
  /\ UNCHANGED compileVars

MouseUp ==
  /\ lastTick.ran
  /\ \E which \in ButtonInputs :
       /\ mode' = FALSE
       /\ activeEvents' = activeEvents \ {"mouse"}
       /\ moving' = IF activeEvents' = {} THEN FALSE ELSE moving
       /\ dirty' = IF which = 1 THEN TRUE ELSE dirty
  /\ \E shot \in {shootAutoFocusRay(bvh, geometry, eye, dir, lensFeatures)} :
        /\ lensFeatures' = shot.lensFeatures
        /\ probe' = [done |-> shot.done, dist |-> shot.dist]
  /\ lastTick' = Stale
  /\ UNCHANGED <<pingpong, active, resScale, max, frameNumber, isFramed,
                 acc, canvas, scheduled, uploads, units>>
  /\ UNCHANGED <<eye, dir>>
  /\ UNCHANGED compileVars

\* focal-depth input, main.js 683-686
FocalDepthInput ==
  /\ lastTick.ran
  /\ \E value \in FocalInputs : lensFeatures' = <<value, lensFeatures[2]>>
  /\ dirty' = TRUE
  /\ lastTick' = Stale
  /\ UNCHANGED <<pingpong, moving, active, resScale, mode, activeEvents, max,
                 frameNumber, isFramed, acc, canvas, scheduled, uploads, units>>
  /\ UNCHANGED <<eye, dir, probe>>
  /\ UNCHANGED compileVars

\* aperture input, main.js 688-691
ApertureInput ==
  /\ lastTick.ran
  /\ \E value \in ApertureInputs : lensFeatures' = <<lensFeatures[1], value>>
  /\ dirty' = TRUE
  /\ lastTick' = Stale
  /\ UNCHANGED <<pingpong, moving, active, resScale, mode, activeEvents, max,
                 frameNumber, isFramed, acc, canvas, scheduled, uploads, units>>
  /\ UNCHANGED <<eye, dir, probe>>
  /\ UNCHANGED compileVars

\* mousewheel and the env-theta input (main.js 665-673): each writes its
\* camera field, fovScale or envTheta, and sets dirty
CameraInput ==
  /\ lastTick.ran
  /\ dirty' = TRUE
  /\ lastTick' = Stale
  /\ UNCHANGED <<pingpong, moving, active, resScale, mode, activeEvents, max,
                 frameNumber, isFramed, acc, canvas, scheduled, uploads, units>>
  /\ UNCHANGED compileVars
  /\ UNCHANGED cameraVars

\* keypress, main.js 701-732; the eye is followed for MaxTravel steps
KeyPress ==
  /\ lastTick.ran
  /\ \E key \in KeyInputs :
       \E moved \in {IF key \in keySet THEN Vec3add(eye, translation(key, dir)) ELSE eye} :
          /\ travelled(moved) <= MaxTravel
          /\ IF key \in keySet
               THEN /\ activeEvents' = activeEvents \cup {key}
                    /\ moving' = TRUE
                    /\ dirty' = TRUE
               ELSE UNCHANGED <<activeEvents, moving, dirty>>
          /\ eye' = moved
          /\ \E shot \in {shootAutoFocusRay(bvh, geometry, moved, dir, lensFeatures)} :
                /\ lensFeatures' = shot.lensFeatures
                /\ probe' = [done |-> shot.done, dist |-> shot.dist]
  /\ lastTick' = Stale
  /\ UNCHANGED <<pingpong, active, resScale, mode, max, frameNumber, isFramed,
                 acc, canvas, scheduled, uploads, units>>
  /\ UNCHANGED dir
  /\ UNCHANGED compileVars

KeyUp ==
  /\ lastTick.ran
  /\ \E key \in KeyInputs :
       IF key \in keySet
         THEN /\ activeEvents' = activeEvents \ {key}
              /\ moving' = IF activeEvents' = {} THEN FALSE ELSE moving
              /\ dirty' = TRUE
         ELSE UNCHANGED <<activeEvents, moving, dirty>>
  /\ lastTick' = Stale
  /\ UNCHANGED <<pingpong, active, resScale, mode, max, frameNumber, isFramed,
                 acc, canvas, scheduled, uploads, units>>
  /\ UNCHANGED compileVars
  /\ UNCHANGED cameraVars

MouseOver ==
  /\ active' = TRUE
  /\ lastTick' = Stale
  /\ UNCHANGED <<pingpong, dirty, moving, resScale, mode, activeEvents, max,
                 frameNumber, isFramed, acc, canvas, scheduled, uploads, units>>
  /\ UNCHANGED compileVars
  /\ UNCHANGED cameraVars

MouseOut ==
  /\ active' = ~isFramed
  /\ lastTick' = Stale
  /\ UNCHANGED <<pingpong, dirty, moving, resScale, mode, activeEvents, max,
                 frameNumber, isFramed, acc, canvas, scheduled, uploads, units>>
  /\ UNCHANGED compileVars
  /\ UNCHANGED cameraVars

\* start(), main.js 911: the probe that follows initEvents()
ShootAutoFocusRay ==
  /\ phase = "padded"
  /\ ~probe.done
  /\ \E shot \in {shootAutoFocusRay(bvh, geometry, eye, dir, lensFeatures)} :
        /\ lensFeatures' = shot.lensFeatures
        /\ probe' = [done |-> shot.done, dist |-> shot.dist]
  /\ UNCHANGED <<eye, dir>>
  /\ UNCHANGED compileVars
  /\ UNCHANGED renderVars

(***************************************************************************)
(* Specifications                                                          *)
(***************************************************************************)
\* the scene compiler, run on every scene of the bounded input sets
CompileNext ==
  \/ LoadTriangle
  \/ NormalizeScene
  \/ BuildBVH
  \/ SerializeTree
  \/ EmitBuffers
  \/ MaskBVH
  \/ PadBuffers

\* the compiler runs inside start(), before the first tick
InitCompile == CompileInit /\ RenderIdle /\ CameraIdle

SpecCompile == InitCompile /\ [][CompileNext]_vars

\* the render loop and the input handlers, after start()
RenderNext ==
  \/ ShootAutoFocusRay
  \/ Tick
  \/ MouseDown
  \/ MouseMove
  \/ MouseUp
  \/ CameraInput
  \/ FocalDepthInput
  \/ ApertureInput
  \/ KeyPress
  \/ KeyUp
  \/ MouseOver
  \/ MouseOut

\* start() has compiled the scene and installed the handlers
InitRender == Compiled(RenderScene, leafSize) /\ RenderInit /\ CameraStart

SpecRender == InitRender /\ [][RenderNext]_vars

\* the autofocus probe of start(), on every compiled scene and camera of the
\* bounded input sets
FocusNext ==
  \/ ShootAutoFocusRay

InitFocus == CompiledInit /\ RenderIdle /\ CameraInit

SpecFocus == InitFocus /\ [][FocusNext]_vars

(***************************************************************************)
(* Properties of the built tree                                            *)
(***************************************************************************)
Tree == bvh.root
Paths == DOMAIN Tree
Leaves == {p \in Paths : Tree[p].leaf}
Internals == {p \in Paths : ~Tree[p].leaf}
IsPrefix(p, q) == Len(p) <= Len(q) /\ SubSeq(q, 1, Len(p)) = p
Subtree(p) == {q \in Paths : IsPrefix(p, q)}
Occurrences(list, v) == Cardinality({k \in 1..Len(list) : list[k] = v})
TreeBuilt == phase \in {"built", "serialized", "emitted", "masked", "padded"}

\* C2: after new BVH(triangles, leafSize) every index 0..N-1 of the source
\* array is in the index list of exactly one leaf, once (on each of the
\* leaf's three axis lists): none lost, none duplicated.
C2_EveryTriangleInExactlyOneLeaf ==
  phase = "built" =>
    \A v \in 0..(Len(geometry) - 1) :
      \A a \in 1..3 :
        /\ Cardinality({p \in Leaves : v \in Range(Tree[p].indices[a])}) = 1
        /\ \A p \in Leaves : Occurrences(Tree[p].indices[a], v) <= 1

\* a tree of at least three leaves has been built
C2_Witness == phase = "built" /\ Cardinality(Leaves) >= 3

\* C3: at every internal node, on each axis the left and right lists made
\* by _constructCachedIndexList are disjoint and cover the node's indices;
\* the left lists of the three axes all hold the set of the first splitIndex
\* entries of the split axis's list, the right lists the other N-splitIndex.
C3_PartitionAgreesOnAllAxes ==
  phase = "built" =>
    \A p \in Internals :
      LET node == Tree[p]
          N == Len(node.built[1])
          L == Tree[Append(p, 0)].built
          R == Tree[Append(p, 1)].built
          first == Range(SubSeq(node.built[node.splitAxis + 1], 1, node.splitIndex))
      IN \A a \in 1..3 :
           /\ Range(L[a]) \cap Range(R[a]) = {}
           /\ Range(L[a]) \cup Range(R[a]) = Range(node.built[a])
           /\ Range(L[a]) = first
           /\ Len(L[a]) = node.splitIndex
           /\ Cardinality(first) = node.splitIndex
           /\ Range(R[a]) = Range(node.built[a]) \ first
           /\ Len(R[a]) = N - node.splitIndex

\* an internal node where some other axis orders the triangles differently:
\* its first splitIndex entries are not the left set
C3_Witness ==
  /\ phase = "built"
  /\ \E p \in Internals : \E a \in 1..3 :
       /\ Len(Tree[p].built[1]) >= 3
       /\ Range(SubSeq(Tree[p].built[a], 1, Tree[p].splitIndex))
            # Range(Tree[Append(p, 0)].built[a])

\* C4: the builder is total: for every non-empty triangle set and
\* leafSize >= 1 the build returns a tree without raising an error.
C4_BuilderIsTotal == phase # "threw"

leafSizesHold ==
    \A p \in Paths :
      LET N == Len(Tree[p].built[1]) IN
      /\ Tree[p].leaf <=> N <= bvh.maxTriangles
      /\ Tree[p].leaf => /\ 1 <= Len(Tree[p].indices[1])
                         /\ Len(Tree[p].indices[1]) <= bvh.maxTriangles
                         /\ Append(p, 0) \notin Paths
                         /\ Append(p, 1) \notin Paths
      /\ ~Tree[p].leaf => /\ Append(p, 0) \in Paths
                          /\ Append(p, 1) \in Paths
                          /\ Len(Tree[Append(p, 0)].built[1]) >= 1
                          /\ Len(Tree[Append(p, 1)].built[1]) >= 1

\* C5 as stated, for every array of triangles: every leaf owns 1..leafSize
\* triangles; every node with more than leafSize triangles is internal with
\* two non-empty children; a node is a leaf exactly when its triangle count
\* is at most leafSize.
C5_LeafSizes == phase = "built" => leafSizesHold

\* C5, for a non-empty array of triangles: every leaf owns 1..leafSize
\* triangles; every node with more than leafSize triangles is internal with
\* two non-empty children; a node is a leaf exactly when its triangle count
\* is at most leafSize.
C5_LeafSizesOfNonEmptyScenes ==
  (phase = "built" /\ Len(geometry) >= 1) => leafSizesHold

\* a tree with an internal node below the root and a full leaf of two
C5_Witness ==
  /\ phase = "built"
  /\ bvh.maxTriangles = 2
  /\ \E p \in Leaves : Len(Tree[p].indices[1]) = 2
  /\ \E p \in Internals : p # <<>>

\* the tightest box around a non-empty set of vertices
VertsOf(S) == UNION {Range(geometry[v + 1].verts) : v \in S}
TightBox(S) ==
  IF S = {} THEN NewBoundingBox
  ELSE
  [min |-> [k \in 1..3 |-> CHOOSE m \in {w[k] : w \in VertsOf(S)} :
                             \A w \in VertsOf(S) : m <= w[k]],
   max |-> [k \in 1..3 |-> CHOOSE m \in {w[k] : w \in VertsOf(S)} :
                             \A w \in VertsOf(S) : m >= w[k]]]

SubtreeTriangles(p) == UNION {Range(Tree[q].indices[1]) : q \in Subtree(p) \cap Leaves}

\* C6: every node's boundingBox is the tightest axis-aligned box around the
\* vertices of the triangles of its subtree, and an internal node's box is
\* the union of its two children's boxes.
C6_BoxesAreTight ==
  phase = "built" =>
    \A p \in Paths :
      /\ \A w \in VertsOf(SubtreeTriangles(p)) : \A c \in 1..3 :
           /\ lessEq(Tree[p].boundingBox.min[c], w[c])
           /\ lessEq(w[c], Tree[p].boundingBox.max[c])
      /\ Tree[p].boundingBox.min = TightBox(SubtreeTriangles(p)).min
      /\ Tree[p].boundingBox.max = TightBox(SubtreeTriangles(p)).max
      /\ ~Tree[p].leaf =>
           Tree[p].boundingBox =
             addBoundingBox(Tree[Append(p, 0)].boundingBox, Tree[Append(p, 1)].boundingBox)

\* a tree of depth 2 built from a scene that normalize has moved
C6_Witness ==
  /\ phase = "built"
  /\ normalize # 0
  /\ bvh.depth >= 2
  /\ \E i \in 1..Len(geometry) :
       geometry[i].boundingBox # addTriangle(NewBoundingBox, geometry[i])

\* C7: when the scene compiler builds the BVH, each triangle's cached
\* boundingBox contains the triangle's three current vertices.
C7_CachedBoxHoldsVertices ==
  phase = "normalized" =>
    \A i \in 1..Len(geometry) : \A j \in 1..3 : \A k \in 1..3 :
      /\ lessEq(geometry[i].boundingBox.min[k], geometry[i].verts[j][k])
      /\ lessEq(geometry[i].verts[j][k], geometry[i].boundingBox.max[k])

(***************************************************************************)
(* Properties of the serialized tree and of the packed buffers             *)
(***************************************************************************)
Ordinals == 0..(Len(bvhArray) - 1)
entry(k) == bvhArray[k + 1]
nodesAt(lo, hi) == {entry(j).node : j \in lo..(hi - 1)}
subtreeSize(p) == Cardinality(Subtree(p))

\* C8: serializeTree returns the nodes in depth-first preorder: the root is
\* at ordinal 0, and an internal node at ordinal p records left = p+1 and
\* right = p+1+size(left subtree); the left subtree fills exactly the
\* ordinals [p+1, right) and the right subtree [right, p+subtreeSize).
C8_SerializedPreorder ==
  phase = "serialized" =>
    /\ Len(bvhArray) = Cardinality(Paths)
    /\ entry(0).node = <<>>
    /\ \A k \in Ordinals :
         ~Tree[entry(k).node].leaf =>
           /\ entry(k).left = k + 1
           /\ entry(k).right = k + 1 + subtreeSize(Append(entry(k).node, 0))
           /\ nodesAt(k + 1, entry(k).right) = Subtree(Append(entry(k).node, 0))
           /\ nodesAt(entry(k).right, k + subtreeSize(entry(k).node))
                = Subtree(Append(entry(k).node, 1))

\* an internal node below the root whose left subtree is itself internal
C8_Witness ==
  /\ phase = "serialized"
  /\ \E k \in Ordinals :
       /\ k >= 1
       /\ ~Tree[entry(k).node].leaf
       /\ entry(k).right > k + 2

\* C9: in the masked BVH buffer every leaf record has -1 in its first two
\* cells, and every internal record has -1 in its third cell and the
\* ordinals of its two children in the first two.
C9_MaskedRecordSentinels ==
  phase = "masked" =>
    \A k \in Ordinals :
      IF Tree[entry(k).node].leaf
        THEN /\ masked[9 * k + 1] = -1
             /\ masked[9 * k + 2] = -1
        ELSE /\ masked[9 * k + 3] = -1
             /\ entry(masked[9 * k + 1]).node = Append(entry(k).node, 0)
             /\ entry(masked[9 * k + 2]).node = Append(entry(k).node, 1)

leafCount(k) == IF Tree[entry(k).node].leaf THEN Len(Tree[entry(k).node].indices[1]) ELSE 0

RECURSIVE emittedBefore(_)
emittedBefore(k) == IF k = 0 THEN 0 ELSE emittedBefore(k - 1) + leafCount(k - 1)

slot(buffer, t, width) == SubSeq(buffer, width * t + 1, width * (t + 1))

\* C10: a leaf record's triangleBaseIndex is the number of triangles the
\* leaves at smaller ordinals emitted, and the leaf's triangles fill the
\* consecutive slots from there in trianglesBuffer and, at the same triangle
\* index, in the material, normal and uv buffers.
C10_LeafBaseIndex ==
  phase = "emitted" =>
    /\ Len(trianglesBuffer) = 9 * Len(geometry)
    /\ \A k \in Ordinals :
         Tree[entry(k).node].leaf =>
           LET base == bvhBuffer[9 * k + 3]
               tris == Tree[entry(k).node].indices[1]
           IN /\ base = emittedBefore(k)
              /\ \A j \in 1..Len(tris) :
                   /\ slot(trianglesBuffer, base + j - 1, 9) = vertCells(geometry[tris[j] + 1])
                   /\ \E emittance \in Emittances :
                        slot(materialBuffer, base + j - 1, 12) = materialCells(tris[j], emittance)
                   /\ slot(normalBuffer, base + j - 1, 27) = normalCells(tris[j])
                   /\ slot(uvBuffer, base + j - 1, 6) = uvCells(tris[j])

\* a leaf of two triangles emitted after two earlier leaves
C10_Witness ==
  /\ phase = "emitted"
  /\ \E k \in Ordinals :
       /\ leafCount(k) = 2
       /\ bvhBuffer[9 * k + 3] >= 2
       /\ Cardinality({j \in 0..(k - 1) : leafCount(j) >= 1}) >= 2

bufferOf(name) ==
  CASE name = "bvh" -> bvhBuffer
    [] name = "materials" -> materialBuffer
    [] name = "triangles" -> trianglesBuffer
    [] name = "normals" -> normalBuffer
    [] name = "lights" -> lightBuffer
    [] name = "uvs" -> uvBuffer

\* C11: for each packed buffer, the light buffer of a scene without emissive
\* triangles included, padBuffer computed a pad count >= 0 and a width and a
\* height that are positive integers, appended only cells equal to -1, and
\* left the buffer with length channels * width * height, a multiple of
\* channels * width.
C11_PaddedToWholeRows ==
  phase = "padded" =>
    \A name \in Textures :
      LET r == res[name]
          buffer == bufferOf(name)
          width == r.res[1]
          height == r.res[2]
      IN /\ r.done
         /\ r.numToPad # NaN
         /\ r.numToPad >= 0
         /\ width > 0
         /\ height > 0
         /\ Len(buffer) = channelsOf(name) * width * height
         /\ Len(buffer) % (channelsOf(name) * width) = 0
         /\ \A c \in (Len(buffer) - r.numToPad + 1)..Len(buffer) : buffer[c] = -1

(***************************************************************************)
(* Properties of the autofocus probe                                       *)
(***************************************************************************)
\* Moller-Trumbore quantities of triangle k of the scene for the camera ray:
\* the determinant, and the numerators of u, v and t over it
edge1(k) == Vec3sub(tenths(geometry[k].verts[2]), tenths(geometry[k].verts[1]))
edge2(k) == Vec3sub(tenths(geometry[k].verts[3]), tenths(geometry[k].verts[1]))
fromVertex(k) == Vec3sub(eye, tenths(geometry[k].verts[1]))
detOf(k) == Vec3dot(edge1(k), Vec3cross(dir, edge2(k)))
uOver(k) == Vec3dot(fromVertex(k), Vec3cross(dir, edge2(k)))
vOver(k) == Vec3dot(dir, Vec3cross(fromVertex(k), edge1(k)))
tOver(k) == Vec3dot(edge2(k), Vec3cross(fromVertex(k), edge1(k)))
answer(k) == rayTriangleIntersect(geometry[k], eye, dir)

\* C12: rayTriangleIntersect returns maxT whenever the ray is parallel to the
\* triangle or strikes its back face (det not greater than epsilon), whenever
\* a barycentric coordinate is out of range (u < 0, u > 1, v < 0 or
\* u + v > 1), and whenever t is not greater than epsilon; otherwise it
\* returns t.
C12_BackFacesAndMissesReturnMaxT ==
  phase = "padded" =>
    \A k \in 1..Len(geometry) :
      IF detOf(k) <= 0 THEN answer(k) = missT
      ELSE IF uOver(k) < 0 \/ uOver(k) > detOf(k) \/ vOver(k) < 0
              \/ uOver(k) + vOver(k) > detOf(k) THEN answer(k) = missT
      ELSE IF tOver(k) <= 0 THEN answer(k) = missT
      ELSE answer(k) * detOf(k) = tOver(k)

\* no triangle of the scene is hit by the camera ray
NoHit == \A k \in 1..Len(geometry) : answer(k) = missT

\* C13 (as the code has it): when the autofocus ray hits no triangle, the
\* traversal returns maxT, the probe completes, and the caller sets the focal
\* depth to maxT (lensFeatures[0] = 1 - 1/maxT), a finite depth.
C13_NoHitFocusesAtMaxT ==
  probe.done /\ NoHit =>
    /\ probe.dist = missT
    /\ lensFeatures[1] = missT
    /\ lensFeatures[1] < Infinity

\* a probe that walked into the tree, entered a leaf's box and hit nothing
C13_Witness ==
  /\ probe.done
  /\ NoHit
  /\ ~Tree[<<>>].leaf
  /\ \E p \in Leaves : rayBoxIntersect(Tree[p].boundingBox, eye, dir) < missT

\* C13 (as stated): when the autofocus ray hits no triangle, the traversal
\* returns maxT, no error is raised, and the caller sets the focal depth to
\* infinity.
C13_NoHitFocusesAtInfinity ==
  probe.done /\ NoHit =>
    /\ probe.dist = missT
    /\ lensFeatures[1] = Infinity

(***************************************************************************)
(* Properties of the render loop                                           *)
(***************************************************************************)
\* C1: when a tick found dirty set with moving false, after its clear() both
\* accumulator targets are zero, pingpong is 0 and dirty is false, whatever
\* pingpong was when clear() was called.
C1_ClearZeroesBothTargets ==
  (lastTick.fresh /\ lastTick.cleared /\ ~lastTick.clearMoving) =>
    /\ acc[0] = "zero"
    /\ acc[1] = "zero"
    /\ pingpong = 0
    /\ ~dirty

\* C14 (as the code has it): when frame >= 0 and the samples input is left
\* alone, the sample counter pingpong equals exactly max when the upload
\* fires, and stays so afterwards.
C14_UploadAtMax ==
  lastTick.uploaded => frameNumber >= 0 /\ pingpong = max

\* an upload with a budget of two samples or more
C14_Witness == lastTick.uploaded /\ lastTick.fresh /\ max >= 2

\* C14 (as stated): when frame >= 0, at the moment the upload fires the sample
\* counter pingpong equals exactly max + 1.
C14_UploadAtMaxPlusOne ==
  lastTick.uploaded => pingpong = max + 1

\* C15 (as the code has it): with frame >= 0, a sample budget of n, the
\* renderer active and no input events: for n >= 1 exactly n + 1 drawTracer
\* calls execute between start-up and the upload (the first tick's pass is
\* discarded by the clear of that tick), and the upload fires in the tick
\* of the last one; for n = 0 no drawTracer call executes and the first tick
\* uploads; with a samples input that parses to NaN no drawTracer call
\* executes and no tick uploads.
C15_BudgetPlusOnePasses ==
  lastTick.quiet /\ lastTick.ran /\ active /\ frameNumber >= 0 =>
    /\ max >= 1 => /\ lastTick.passes <= max + 1
                   /\ uploads = 1 <=> lastTick.passes = max + 1
    /\ max = 0 => lastTick.passes = 0 /\ uploads = 1
    /\ max = NaN => lastTick.passes = 0 /\ uploads = 0
    /\ lastTick.uploaded <=> uploads = 1

\* an undisturbed run with a budget of two or more that has uploaded
C15_Witness ==
  lastTick.quiet /\ active /\ frameNumber >= 0 /\ lastTick.uploaded /\ max >= 2

\* C15 (as stated): with frame >= 0, a sample budget of n, the renderer active
\* and no input events, exactly n drawTracer calls execute between start-up
\* and the upload, and the upload then fires.
C15_BudgetPasses ==
  lastTick.quiet /\ lastTick.ran /\ active /\ frameNumber >= 0 /\ max # NaN =>
    /\ lastTick.passes <= max
    /\ uploads = 1 <=> lastTick.passes = max

\* C16: after a camera rotation in a run with budget n (the claim takes n = 5
\* and a rotation between passes 2 and 3), the accumulator is cleared at the
\* next tick, and afterwards exactly n fresh tracer passes execute before the
\* budget is exhausted, the first of them issued with sample ordinal 1.
C16_RotationRestartsTheBudget ==
  /\ lastTick.fresh /\ lastTick.afterRotation => \A k \in 0..1 : acc[k] = "zero"
  /\ lastTick.fresh /\ lastTick.traced /\ lastTick.freshPasses = 1 => lastTick.ord = 1
  /\ lastTick.fresh /\ lastTick.freshPasses >= 0 /\ active /\ max # NaN
       /\ ~shouldTrace(max, pingpong, active) => lastTick.freshPasses = max

\* C17: every tracer pass with sample ordinal i reads accumulator target
\* (i + 1) mod 2 and writes target i mod 2, so that it never reads the target
\* it writes; and when no clear() came between two consecutive passes, the
\* later one reads the target the earlier one wrote.
C17_PingPong ==
  lastTick.traced =>
    /\ lastTick.read = (lastTick.ord + 1) % 2
    /\ lastTick.wrote = lastTick.ord % 2
    /\ lastTick.read # lastTick.wrote
    /\ lastTick.prev # -1 => lastTick.read = lastTick.prev

\* a pass with ordinal 2 that followed two passes with no clear between
C17_Witness ==
  lastTick.traced /\ lastTick.ord = 2 /\ lastTick.prev = 1

\* C18: in every tick in which a tracer pass executes, drawQuad tone-maps from
\* the accumulator target that the tracer pass of that tick has just written.
C18_PresentsWhatWasJustWritten ==
  lastTick.fresh /\ lastTick.traced => lastTick.presented = lastTick.wrote

\* C20: a tick either uploads and schedules no further tick, which it does
\* iff pingpong >= max and frame >= 0 at its end, or schedules the next tick;
\* with frame < 0 the loop never halts, and after an upload no tick runs
\* again, so that the upload fires at most once.
C20_UploadOrSchedule ==
  /\ lastTick.ran => (scheduled <=> ~lastTick.uploaded)
  /\ lastTick.fresh => (lastTick.uploaded <=> (lessEq(max, pingpong) /\ frameNumber >= 0))
  /\ frameNumber < 0 => scheduled /\ uploads = 0
  /\ uploads >= 1 => ~scheduled /\ lastTick.uploaded
  /\ uploads <= 1

\* both ends of a tick: an upload, and a tick that went on in frame mode
C20_Witness ==
  /\ lastTick.fresh
  /\ \/ uploads = 1 /\ ~scheduled /\ max >= 2
     \/ frameNumber >= 0 /\ scheduled /\ lastTick.traced /\ pingpong >= 1

\* C19: every change made after start-up to a camera field that affects ray
\* paths (eye, dir, either component of lensFeatures, whether written by a
\* handler or by the autofocus probe run from the key-press and mouse-up
\* handlers; fovScale and envTheta, written by the mousewheel and env-theta
\* handlers) leaves dirty = true.
C19_CameraChangesSetDirty ==
  [][/\ lastTick.ran /\ (eye' # eye \/ dir' # dir \/ lensFeatures' # lensFeatures) => dirty'
     /\ CameraInput => dirty']_vars

\* C21: while active is false a tick executes no tracer pass (nor the camera
\* pass that goes with it) and does not increment pingpong, but still
\* executes the present pass and, unless the upload condition holds,
\* schedules the next tick; no handler writes pingpong, and a pass is issued
\* with the pingpong it finds, so that sampling resumes from the same value
\* once active is true again if no clear() intervened.
C21_InactiveTicksHoldTheCount ==
  [][/\ ~active /\ Tick =>
          /\ ~lastTick'.traced
          /\ lastTick'.ord = -1
          /\ pingpong' = IF dirty THEN 0 ELSE pingpong
          /\ \A k \in 0..1 : acc'[k] \in {acc[k], "zero"}
          /\ canvas' # "blank"
          /\ lastTick'.presented \in 0..1
          /\ scheduled' = ~(lessEq(max, pingpong') /\ frameNumber >= 0)
     /\ pingpong' # pingpong => Tick
     /\ lastTick'.traced /\ Tick =>
          /\ lastTick'.ord = pingpong
          /\ pingpong' = IF dirty THEN 0 ELSE pingpong + 1]_vars

\* an inactive tick that left a count of one or more as it was
C21_Witness ==
  /\ lastTick.fresh
  /\ ~lastTick.traced
  /\ ~lastTick.cleared
  /\ ~active
  /\ pingpong >= 1
  /\ pingpong <= max

\* the union of the cached boxes of a non-empty set of triangles, and the
\* surface area of that union
BoxOf(S) ==
  [min |-> [c \in 1..3 |-> CHOOSE m \in {geometry[v + 1].boundingBox.min[c] : v \in S} :
                             \A v \in S : m <= geometry[v + 1].boundingBox.min[c]],
   max |-> [c \in 1..3 |-> CHOOSE m \in {geometry[v + 1].boundingBox.max[c] : v \in S} :
                             \A v \in S : m >= geometry[v + 1].boundingBox.max[c]]]
SA(S) == getSurfaceArea(BoxOf(S))

\* C(a, k) of the node at p, multiplied by SA(parent): the first k triangles
\* of the axis-a list in front, the last N-k behind
referenceCost(p, a, k) ==
  LET list == Tree[p].built[a + 1]
      N == Len(list)
  IN getSurfaceArea(Tree[p].boundingBox)
       + SA(Range(SubSeq(list, 1, k))) * k
       + SA(Range(SubSeq(list, k + 1, N))) * (N - k)

\* C22: for a node with N >= 2 triangles setSplit selects an (axis, k), k in
\* 1..N-1, that minimises C(a,k) = 1 + SA(front_k)/SA(parent)*k
\* + SA(back_{N-k})/SA(parent)*(N-k) over the three axes, front_k and
\* back_{N-k} being the boxes of the first k and of the last N-k triangles
\* in axis-a order.  (Stated for nodes whose box has a positive area, where
\* C is defined.)
C22_SplitMinimisesCost ==
  phase = "built" =>
    \A p \in Paths :
      LET N == Len(Tree[p].built[1]) IN
      (N >= 2 /\ getSurfaceArea(Tree[p].boundingBox) > 0) =>
        /\ Tree[p].splitAxis \in 0..2
        /\ Tree[p].splitIndex \in 1..(N - 1)
        /\ \A a \in 0..2 : \A k \in 1..(N - 1) :
             referenceCost(p, Tree[p].splitAxis, Tree[p].splitIndex)
               <= referenceCost(p, a, k)

\* the cost setSplit computes for the node at p, axis a and loop index i
\* (multiplied by the node's surface area)
costAt(p, a, i) ==
  LET list == Tree[p].built[a + 1]
      N == Len(list)
  IN splitCost(surfacesFront(geometry, list)[i + 1],
               surfacesBack(geometry, list)[N - i],
               getSurfaceArea(Tree[p].boundingBox), i, N)

\* candidate (a, i) comes before (b, j) in the order setSplit visits them
visitedBefore(a, i, b, j) == a < b \/ (a = b /\ i < j)

sameCentroids ==
  /\ Len(geometry) = 2
  /\ centroid(geometry[1].boundingBox) = centroid(geometry[2].boundingBox)

\* C23: among the candidates that share the minimum cost setSplit keeps the
\* first in iteration order (axis 0 to 2, k low to high); in particular for
\* two triangles with identical centroids on all axes and leafSize 1 the
\* root gets splitAxis = 0, splitIndex = 1 and both children are
\* single-triangle leaves.
C23_FirstMinimumIsKept ==
  /\ phase = "built" =>
       \A p \in Paths :
         (Len(Tree[p].built[1]) >= 1 /\ getSurfaceArea(Tree[p].boundingBox) > 0) =>
           /\ Tree[p].splitAxis \in 0..2
           /\ Tree[p].splitIndex \in 1..Len(Tree[p].built[1])
           /\ \A a \in 0..2 : \A i \in 0..(Len(Tree[p].built[1]) - 1) :
                LET chosen == costAt(p, Tree[p].splitAxis, Tree[p].splitIndex - 1) IN
                /\ chosen <= costAt(p, a, i)
                /\ visitedBefore(a, i, Tree[p].splitAxis, Tree[p].splitIndex - 1)
                     => chosen < costAt(p, a, i)
  /\ (phase \in {"built", "threw"} /\ sameCentroids /\ bvh.maxTriangles = 1) =>
       /\ phase = "built"
       /\ Tree[<<>>].splitAxis = 0
       /\ Tree[<<>>].splitIndex = 1
       /\ \A side \in 0..1 :
            /\ <<side>> \in Leaves
            /\ Len(Tree[<<side>>].indices[1]) = 1

\* the list is ascending by cached-box centroid on axis a (1..3)
sortedOn(list, a) ==
  \A j, k \in 1..Len(list) :
    j < k => centroid(geometry[list[j] + 1].boundingBox)[a]
               <= centroid(geometry[list[k] + 1].boundingBox)[a]

\* the entries of `list` keep the relative order they have in `parent`
keepsOrderOf(list, parent) ==
  \A j, k \in 1..Len(list) :
    j < k => \E m, n \in 1..Len(parent) :
               m < n /\ parent[m] = list[j] /\ parent[n] = list[k]

\* C24: at every node created during the build each of the three index
\* lists is sorted ascending by triangle AABB centroid on its own axis, and
\* a child's list keeps the relative order its indices had in the parent's
\* list of the same axis.
C24_ListsStaySorted ==
  phase = "built" =>
    \A p \in Paths : \A a \in 1..3 :
      /\ sortedOn(Tree[p].built[a], a)
      /\ p # <<>> => keepsOrderOf(Tree[p].built[a], Tree[SubSeq(p, 1, Len(p) - 1)].built[a])

\* an internal node of three or more triangles with a child of two or more
\* whose list on a non-split axis is not a slice of the parent's list
C24_Witness ==
  /\ phase = "built"
  /\ \E p \in Internals : \E side \in 0..1 : \E a \in 1..3 :
       LET parent == Tree[p].built[a]
           child == Tree[Append(p, side)].built[a]
       IN /\ a # Tree[p].splitAxis + 1
          /\ Len(child) >= 2
          /\ \A from \in 1..Len(parent) :
               from + Len(child) - 1 <= Len(parent)
                 => SubSeq(parent, from, from + Len(child) - 1) # child

\* the brute-force scan: the least rayTriangleIntersect distance over every
\* triangle of the scene, maxT when none is below it
bruteForce ==
  CHOOSE m \in {answer(k) : k \in 1..Len(geometry)} \cup {missT} :
    \A k \in 1..Len(geometry) : m <= answer(k) /\ m <= missT

\* C25: findTriangles(bvh.root, maxT) returns the same value as a
\* brute-force scan of all triangles: the minimum rayTriangleIntersect
\* distance below maxT over every triangle of the scene, or maxT if there
\* is none.
C25_WalkEqualsBruteForce == probe.done => probe.dist = bruteForce

\* what the texture sampled by the present pass of a tick holds when
\* drawQuad runs: the samples of the pass of this tick if that pass wrote
\* it, else what it held before the tick
shownContent ==
  IF lastTick'.traced /\ lastTick'.presented = lastTick'.wrote
    THEN (IF resScale' = 100 THEN "full" ELSE "quarter")
    ELSE acc[lastTick'.presented]

\* C26: resScale is 0.25 in every tick that starts while moving is true and
\* 1.0 otherwise, and in every tick the scale given to the present pass
\* equals the resScale under which the accumulator target being presented
\* was last written by a tracer pass (a target no pass has written since it
\* was cleared is exempt).
C26_PresentScaleMatchesSamples ==
  [][Tick =>
       /\ resScale' = IF moving THEN 25 ELSE 100
       /\ (lastTick'.presented \in 0..1 /\ shownContent # "zero") =>
            shownContent = IF resScale' = 100 THEN "full" ELSE "quarter"]_vars

\* C27: for every interleaving of mouse, key events and ticks, whenever an
\* event changes moving from true to false it also sets dirty = true, so
\* that samples accumulated at quarter resolution are discarded by a clear
\* before full-resolution samples are accumulated onto them: no tracer pass
\* at scale 1.0 reads a target that holds quarter-resolution samples.
C27_StoppingSetsDirty ==
  [][/\ (moving /\ ~moving') => dirty'
     /\ (Tick /\ lastTick'.traced /\ resScale' = 100) =>
          acc[lastTick'.read] # "quarter"]_vars

====
